---- MODULE Spec2Model ----
(***************************************************************************)
(* MPU6050 driver (src/src/Gyro.py): register decoding, unit scaling,      *)
(* gyro calibration, angle integration and offset/sensitivity setters.     *)
(*                                                                         *)
(* Python floats are modelled as a binary floating-point format with       *)
(* MantBits bits of precision, round-to-nearest-even and gradual           *)
(* underflow at 2^-FracBits.  A float is held as the integer               *)
(* value * 2^FracBits.  Bus bytes, clock gaps and setter arguments are     *)
(* drawn from small finite sets of finite numbers.                         *)
(***************************************************************************)
EXTENDS Integers, Sequences, FiniteSets, TLC

----------------------------------------------------------------------------
(* Bounds of the model *)

MantBits == 11          \* precision of the float format, in bits
FracBits == 8           \* floats are multiples of 2^-FracBits
TicksBits == 10         \* ticks_ms() counts modulo 2^TicksBits
StartClock == 1500      \* true time (ms) at which the program starts
MaxClock == 2600        \* true time (ms) after which the model stops the clock
DefaultSamples == 3     \* stands for the default samples=200 of _calibrate_gyro
MaxFailAt == 2          \* the byte read of a call that raises is among its first MaxFailAt

----------------------------------------------------------------------------
(* Register map, Gyro.py lines 34-41 *)

PWR_MGMT_1 == 107
TEMP_OUT_H == 65
ACCEL_XOUT_H == 59
ACCEL_YOUT_H == 61
ACCEL_ZOUT_H == 63
GYRO_XOUT_H == 67
GYRO_YOUT_H == 69
GYRO_ZOUT_H == 71

Axes == {"x", "y", "z"}
Err == -1               \* what a bus read that raised answers

----------------------------------------------------------------------------
(* Floating point *)

Abs(n) == IF n < 0 THEN -n ELSE n
Sign(n) == IF n < 0 THEN -1 ELSE 1

RECURSIVE Gcd(_, _)
Gcd(a, b) == IF b = 0 THEN a ELSE Gcd(b, a % b)

One == 2^FracBits

RECURSIVE Quantum(_, _, _)
\* the spacing of the floats around a / den: the least power of two q with
\* a / den < 2^MantBits * q
Quantum(a, den, q) ==
    IF a < (2^MantBits) * q * den THEN q ELSE Quantum(a, den, 2 * q)

\* t + r / d rounded to an integer, ties to even
HalfEven(t, r, d) ==
    IF 2 * r > d \/ (2 * r = d /\ t % 2 = 1) THEN t + 1 ELSE t

\* a / den rounded to a multiple of q
RoundTo(a, d, q) == q * HalfEven(a \div d, a % d, d)

\* the float nearest to num / den (den > 0), ties to even
RoundMag(a, den, q) == RoundTo(a, den * q, q)
RoundQ(num, den) == Sign(num) * RoundMag(Abs(num), den, Quantum(Abs(num), den, 1))

Ulp(f) == Quantum(Abs(f), 1, 1)

\* the float of a decimal literal num / den, or of an int
Lit(num, den) == RoundQ(num * One, den)
IntToFloat(i) == RoundQ(i * One, 1)

FAdd(a, b) == RoundQ(a + b, 1)
FSub(a, b) == RoundQ(a - b, 1)
FMul(a, b) == RoundQ(a * b, One)
\* a / b, for b # 0
FDivBy(a, b, g) == RoundQ(Sign(b) * (a \div g) * One, Abs(b) \div g)
FDiv(a, b) == FDivBy(a, b, Gcd(Abs(a), Abs(b)))

\* int(f): truncation toward zero
IntTrunc_Floor(f) == f \div One
IntTrunc(f) == Sign(f) * (Abs(f) \div One)

Vec(a, b, c) == [x |-> a, y |-> b, z |-> c]
ZeroVec == Vec(0, 0, 0)

----------------------------------------------------------------------------
(* The environment: the device's registers, the clock, the callers' arguments *)

\* raw gyro readings (x, y, z) the device may hold
GyroVecs == {Vec(131, 262, 2045), Vec(-1310, -3, 2045)}
AccelVecs == {Vec(16384, 0, -8192)}
TempRaws == {-3400}

\* the readings of the `samples` rounds of a calibration: the device turns
\* about x and y in the last round and keeps its rate about z
CalRuns(samples) ==
    {[i \in 1..samples |-> IF i = samples THEN Vec(131, 262, 2045) ELSE Vec(-1310, -3, 2045)]}

\* time that may pass between two calls, in ms
Gaps == {500}

\* arguments passed to set_gyro_sensitivity / set_accel_sensitivity
GyroFactors == {Lit(131, 1), Lit(262, 1)}
AccelFactors == {Lit(16384, 1), Lit(8192, 1)}

\* arguments passed to set_gyro_offset
OffsetArgs ==
    { [x |-> One, y |-> 0, z |-> 0],
      [x |-> 0, y |-> 0],
      [y |-> One, z |-> One] }

\* the two bytes a 16-bit register pair holding raw presents on the bus
DevHigh(raw) == ((raw + 65536) % 65536) \div 256
DevLow(raw) == ((raw + 65536) % 65536) % 256

----------------------------------------------------------------------------
(* State *)

VARIABLES
    phase,          \* "new": before __init__, "live": constructed, "dead": __init__ raised
    clock,          \* true time in ms (environment)
    gsens,          \* self.omega_offset_sensetivity_factor
    asens,          \* self.accel_offset_sensetivity_factor
    omega_offset,   \* self.omega_offset
    theta,          \* self.theta
    theta_f,        \* self._theta_f
    last_update,    \* self.last_update
    ret,            \* the latest call: [op, arg, status, val]
    busLog,         \* bus transactions of the latest call, in order
    nWrites,        \* bus writes issued so far
    hist            \* history of the integration since its origin (auxiliary)

vars == <<phase, clock, gsens, asens, omega_offset, theta, theta_f, last_update,
          ret, busLog, nWrites, hist>>

obj == <<gsens, asens, omega_offset, theta, theta_f, last_update>>

TICKS_PERIOD == 2^TicksBits

\* time.ticks_ms() at true time t
ticks_ms(t) == t % TICKS_PERIOD

\* time.ticks_diff(a, b)
ticks_diff_naive(a, b) == a - b
ticks_diff(a, b) ==
    ((a - b + TICKS_PERIOD \div 2) % TICKS_PERIOD) - TICKS_PERIOD \div 2

\* a bus transaction: writeto_mem(addr, reg, data) of n bytes, or
\* readfrom_mem(addr, reg, n) answering data; ok is FALSE when it raised
Wr(reg, data, ok) == [kind |-> "w", reg |-> reg, n |-> 1, data |-> data, ok |-> ok]
Rd_Two(reg, data) == [kind |-> "r", reg |-> reg, n |-> 2, data |-> data, ok |-> data # Err]
Rd(reg, data) == [kind |-> "r", reg |-> reg, n |-> 1, data |-> data, ok |-> data # Err]

Result(op, arg, status, val) == [op |-> op, arg |-> arg, status |-> status, val |-> val]

NewHist(t) ==
    [origin |-> t,          \* true time of the integration origin
     lastTrue |-> t,        \* true time at which last_update was last set
     dtsum |-> 0,           \* sum of the tick differences integrated since the origin
     skipped |-> 0,         \* time that ended at an update_theta that raised
     gapsOk |-> TRUE,       \* every integrated interval was shorter than half a period
     dt |-> 0,              \* the local dt of the latest update_theta
     gap |-> 0,             \* true time between the latest update_theta and the one before
     rolled |-> FALSE]      \* ticks_ms() rolled over in that time

Init ==
    /\ phase = "new"
    /\ clock = StartClock
    /\ gsens = 0
    /\ asens = 0
    /\ omega_offset = ZeroVec
    /\ theta = ZeroVec
    /\ theta_f = ZeroVec
    /\ last_update = 0
    /\ ret = Result("none", <<>>, "ok", <<>>)
    /\ busLog = <<>>
    /\ nWrites = 0
    /\ hist = NewHist(StartClock)

----------------------------------------------------------------------------
(* _read_raw_data *)

ReadRawData_NoSign(high, low) == high * 256 + low
ReadRawData(high, low) ==
    LET value == high * 256 + low
    IN  IF value > 32767 THEN value - 65536 ELSE value

\* The bus transactions of consecutive _read_raw_data calls on regs, the
\* device holding raws; the failAt-th byte read raises (0: none does).
ReadLog(regs, raws, failAt) ==
    [k \in 1..(IF failAt = 0 THEN 2 * Len(regs) ELSE failAt) |->
        LET i == (k + 1) \div 2
            reg == IF k % 2 = 1 THEN regs[i] ELSE regs[i] + 1
        IN  IF k = failAt THEN Rd(reg, Err)
            ELSE Rd(reg, IF k % 2 = 1 THEN DevHigh(raws[i]) ELSE DevLow(raws[i]))]

\* the value the i-th _read_raw_data call of a log returned
RawAt(log, i) == ReadRawData(log[2 * i - 1].data, log[2 * i].data)

GyroRegs == <<GYRO_XOUT_H, GYRO_YOUT_H, GYRO_ZOUT_H>>
AccelRegs == <<ACCEL_XOUT_H, ACCEL_YOUT_H, ACCEL_ZOUT_H>>
VecSeq(v) == <<v.x, v.y, v.z>>

\* the byte reads of a call of m register reads at which the bus may raise
FailPoints(m) == {k \in 0..(2 * m) : k <= MaxFailAt}

----------------------------------------------------------------------------
(* Readers *)

\* get_temp: raw / 340.0 + 36.53
TempOf(raw) == FAdd(FDiv(IntToFloat(raw), Lit(340, 1)), Lit(3653, 100))

\* one axis of get_accel
AccelOf(raw, sens) == FDiv(IntToFloat(raw), sens)

\* one axis of get_omega: raw / factor - offset
OmegaOf_NoBias(raw, sens, off) == FDiv(IntToFloat(raw), sens)
OmegaOf(raw, sens, off) == FSub(FDiv(IntToFloat(raw), sens), off)

\* a call of get_omega with the device holding v, the failAt-th byte read raising
OmegaFrom(log, failAt) ==
    IF failAt # 0 THEN [log |-> log, status |-> "OSError", val |-> <<>>]
    ELSE [log |-> log, status |-> "ok",
          val |-> Vec(OmegaOf(RawAt(log, 1), gsens, omega_offset.x),
                      OmegaOf(RawAt(log, 2), gsens, omega_offset.y),
                      OmegaOf(RawAt(log, 3), gsens, omega_offset.z))]
OmegaCall(v, failAt) == OmegaFrom(ReadLog(GyroRegs, VecSeq(v), failAt), failAt)

TempFrom(log, failAt) ==
    /\ busLog' = log
    /\ ret' = IF failAt # 0 THEN Result("get_temp", <<>>, "OSError", <<>>)
              ELSE Result("get_temp", <<>>, "ok", <<TempOf(RawAt(log, 1))>>)

GetTemp ==
    /\ phase = "live"
    /\ \E raw \in TempRaws, failAt \in FailPoints(1) :
        TempFrom(ReadLog(<<TEMP_OUT_H>>, <<raw>>, failAt), failAt)
    /\ UNCHANGED <<phase, clock, obj, nWrites, hist>>

AccelFrom(log, failAt) ==
    /\ busLog' = log
    /\ ret' = IF failAt # 0 THEN Result("get_accel", <<>>, "OSError", <<>>)
              ELSE Result("get_accel", <<>>, "ok",
                          Vec(AccelOf(RawAt(log, 1), asens),
                              AccelOf(RawAt(log, 2), asens),
                              AccelOf(RawAt(log, 3), asens)))

GetAccel ==
    /\ phase = "live"
    /\ \E v \in AccelVecs, failAt \in FailPoints(3) :
        AccelFrom(ReadLog(AccelRegs, VecSeq(v), failAt), failAt)
    /\ UNCHANGED <<phase, clock, obj, nWrites, hist>>

OmegaReturn(out) ==
    /\ busLog' = out.log
    /\ ret' = Result("get_omega", <<>>, out.status, out.val)

GetOmega ==
    /\ phase = "live"
    /\ \E v \in GyroVecs, failAt \in FailPoints(3) : OmegaReturn(OmegaCall(v, failAt))
    /\ UNCHANGED <<phase, clock, obj, nWrites, hist>>

----------------------------------------------------------------------------
(* Calibration *)

SLEEP_MS == 10
WAKE_MS == 100

\* the registers and the device's values of `samples` rounds of the loop
RECURSIVE CalRegs(_)
CalRegs(samples) == IF samples = 0 THEN <<>> ELSE CalRegs(samples - 1) \o GyroRegs
RECURSIVE CalRaws(_, _)
CalRaws(vs, samples) ==
    IF samples = 0 THEN <<>> ELSE CalRaws(vs, samples - 1) \o VecSeq(vs[samples])

\* offset[axis] after i rounds; j is the axis' position in a round
RECURSIVE Accumulate(_, _, _, _)
Accumulate(log, sens, j, i) ==
    IF i = 0 THEN 0
    ELSE FAdd(Accumulate(log, sens, j, i - 1),
              FDiv(IntToFloat(RawAt(log, 3 * (i - 1) + j)), sens))

\* val / samples
MeanOf(sum, samples) == FDiv(sum, IntToFloat(samples))

\* the per-axis sum the loop leaves, bias-subtracted as get_omega would
RECURSIVE AccumulateBiased(_, _, _, _, _)
AccumulateBiased(log, sens, off, j, i) ==
    IF i = 0 THEN 0
    ELSE FAdd(AccumulateBiased(log, sens, off, j, i - 1),
              OmegaOf(RawAt(log, 3 * (i - 1) + j), sens, off))
CalOffset_Biased(log, sens, samples) ==
    Vec(MeanOf(AccumulateBiased(log, sens, omega_offset.x, 1, samples), samples),
        MeanOf(AccumulateBiased(log, sens, omega_offset.y, 2, samples), samples),
        MeanOf(AccumulateBiased(log, sens, omega_offset.z, 3, samples), samples))
CalOffset(log, sens, samples) ==
    Vec(MeanOf(Accumulate(log, sens, 1, samples), samples),
        MeanOf(Accumulate(log, sens, 2, samples), samples),
        MeanOf(Accumulate(log, sens, 3, samples), samples))

\* a call of _calibrate_gyro(samples) with factor sens, the device holding
\* vs[i] in round i, the failAt-th byte read raising
CalibrateFrom(log, samples, sens, failAt) ==
    IF failAt # 0 THEN [log |-> log, status |-> "OSError", val |-> <<>>]
    ELSE [log |-> log, status |-> "ok", val |-> CalOffset(log, sens, samples)]
CalibrateGyro(samples, vs, sens, failAt) ==
    CalibrateFrom(ReadLog(CalRegs(samples), CalRaws(vs, samples), failAt),
                  samples, sens, failAt)

\* time a call of _calibrate_gyro(samples) may take: at least its sleeps
CalTimes(t, samples) == {d \in Gaps : d >= samples * SLEEP_MS /\ t + d <= MaxClock}

----------------------------------------------------------------------------
(* Construction *)

DEFAULT_GYRO_FACTOR == Lit(131, 1)
DEFAULT_ACCEL_FACTOR == Lit(16384, 1)

\* __init__ from the sleep on: set the fields at time t, calibrate for d ms
ConstructFrom(t, d, cal) ==
    /\ busLog' = <<Wr(PWR_MGMT_1, 0, TRUE)>> \o cal.log
    /\ nWrites' = nWrites + 1
    /\ gsens' = DEFAULT_GYRO_FACTOR
    /\ asens' = DEFAULT_ACCEL_FACTOR
    /\ theta' = ZeroVec
    /\ theta_f' = ZeroVec
    /\ last_update' = ticks_ms(t)
    /\ hist' = NewHist(t)
    /\ clock' = t + d
    /\ ret' = Result("__init__", <<>>, cal.status, <<>>)
    /\ IF cal.status = "ok"
       THEN phase' = "live" /\ omega_offset' = cal.val
       ELSE phase' = "dead" /\ UNCHANGED omega_offset

\* __init__: wake the device, sleep, set the fields, calibrate
Construct ==
    /\ phase = "new"
    /\ \/ \* writeto_mem raises
          /\ phase' = "dead"
          /\ busLog' = <<Wr(PWR_MGMT_1, 0, FALSE)>>
          /\ nWrites' = nWrites + 1
          /\ ret' = Result("__init__", <<>>, "OSError", <<>>)
          /\ UNCHANGED <<clock, obj, hist>>
       \/ \E vs \in CalRuns(DefaultSamples),
             failAt \in FailPoints(3 * DefaultSamples),
             d \in CalTimes(clock + WAKE_MS, DefaultSamples) :
            ConstructFrom(clock + WAKE_MS, d,
                          CalibrateGyro(DefaultSamples, vs, DEFAULT_GYRO_FACTOR, failAt))

----------------------------------------------------------------------------
(* Angle integration *)

\* dt = time.ticks_diff(now, self.last_update) / 1000
DtOf(now, last) == FDiv(IntToFloat(ticks_diff(now, last)), IntToFloat(1000))

\* one axis of the loop: theta_f[axis] += omega[axis] * dt
StepOf_NoAccumulate(tf, omega, d) == FMul(omega, d)
StepOf(tf, omega, d) == FAdd(tf, FMul(omega, d))

\* theta[axis] = int(theta_f[axis])
ThetaOf(tf) == IntTrunc(tf)

\* last_update after update_theta has read the clock
LastUpdateOf_Kept(now, last) == last
LastUpdateOf(now, last) == now

\* update_theta, called as op ("update_theta" itself or "get_theta"), from
\* the call of get_omega on: out is what that call does
UpdateFrom(op, now, d, out, gap) ==
    /\ last_update' = LastUpdateOf(now, last_update)
    /\ busLog' = out.log
    /\ IF out.status = "ok"
       THEN /\ theta_f' = [a \in Axes |-> StepOf(theta_f[a], out.val[a], d)]
            /\ theta' = [a \in Axes |-> ThetaOf(theta_f'[a])]
            /\ hist' = [hist EXCEPT !.lastTrue = clock,
                                    !.dtsum = @ + ticks_diff(now, last_update),
                                    !.gapsOk = @ /\ gap < TICKS_PERIOD \div 2,
                                    !.dt = d,
                                    !.gap = gap,
                                    !.rolled = (clock \div TICKS_PERIOD) > (hist.lastTrue \div TICKS_PERIOD)]
            /\ ret' = Result(op, <<>>, "ok", IF op = "get_theta" THEN theta' ELSE <<>>)
       ELSE /\ UNCHANGED <<theta, theta_f>>
            /\ hist' = [hist EXCEPT !.lastTrue = clock,
                                    !.skipped = @ + gap,
                                    !.dt = d,
                                    !.gap = gap,
                                    !.rolled = (clock \div TICKS_PERIOD) > (hist.lastTrue \div TICKS_PERIOD)]
            /\ ret' = Result(op, <<>>, out.status, <<>>)
    /\ UNCHANGED <<phase, clock, gsens, asens, omega_offset, nWrites>>

Update(op, v, failAt) ==
    UpdateFrom(op, ticks_ms(clock), DtOf(ticks_ms(clock), last_update),
               OmegaCall(v, failAt), clock - hist.lastTrue)

UpdateTheta ==
    /\ phase = "live"
    /\ \E v \in GyroVecs, failAt \in FailPoints(3) :
        Update("update_theta", v, failAt)

GetTheta ==
    /\ phase = "live"
    /\ \E v \in GyroVecs, failAt \in FailPoints(3) :
        Update("get_theta", v, failAt)

ResetThetaClock_Kept(now, last) == last
ResetThetaClock(now, last) == now

ResetTheta ==
    /\ phase = "live"
    /\ theta' = ZeroVec
    /\ theta_f' = ZeroVec
    /\ last_update' = ResetThetaClock(ticks_ms(clock), last_update)
    /\ hist' = NewHist(clock)
    /\ ret' = Result("reset_theta", <<>>, "ok", <<>>)
    /\ busLog' = <<>>
    /\ UNCHANGED <<phase, clock, gsens, asens, omega_offset, nWrites>>

----------------------------------------------------------------------------
(* Offset and sensitivity configuration *)

ResetFrom(d, cal) ==
    /\ busLog' = cal.log
    /\ clock' = clock + d
    /\ ret' = Result("reset_gyro_offset", <<>>, cal.status, <<>>)
    /\ omega_offset' = IF cal.status = "ok" THEN cal.val ELSE omega_offset

ResetGyroOffset ==
    /\ phase = "live"
    /\ \E vs \in CalRuns(DefaultSamples),
          failAt \in FailPoints(3 * DefaultSamples),
          d \in CalTimes(clock, DefaultSamples) :
        ResetFrom(d, CalibrateGyro(DefaultSamples, vs, gsens, failAt))
    /\ UNCHANGED <<phase, gsens, asens, theta, theta_f, last_update, nWrites, hist>>

CalibrateReturn(samples, d, cal) ==
    /\ busLog' = cal.log
    /\ clock' = clock + d
    /\ ret' = Result("_calibrate_gyro", samples, cal.status, cal.val)

\* a direct call _calibrate_gyro(samples), which returns the offset
CalibrateCall ==
    /\ phase = "live"
    /\ \E samples \in 1..DefaultSamples :
       \E vs \in CalRuns(samples),
          failAt \in FailPoints(3 * samples),
          d \in CalTimes(clock, samples) :
        CalibrateReturn(samples, d, CalibrateGyro(samples, vs, gsens, failAt))
    /\ UNCHANGED <<phase, obj, nWrites, hist>>

\* all(axis in offset for axis in ['x', 'y', 'z'])
HasAllAxes_Any(offset) == Axes \cap DOMAIN offset # {}
HasAllAxes(offset) == Axes \subseteq DOMAIN offset

SetGyroOffset ==
    /\ phase = "live"
    /\ \E offset \in OffsetArgs :
        IF HasAllAxes(offset)
        THEN /\ omega_offset' = offset
             /\ ret' = Result("set_gyro_offset", offset, "ok", <<>>)
        ELSE /\ UNCHANGED omega_offset
             /\ ret' = Result("set_gyro_offset", offset, "ValueError", <<>>)
    /\ busLog' = <<>>
    /\ UNCHANGED <<phase, clock, gsens, asens, theta, theta_f, last_update, nWrites, hist>>

SetGyroSensitivity ==
    /\ phase = "live"
    /\ \E factor \in GyroFactors :
        /\ gsens' = factor
        /\ ret' = Result("set_gyro_sensitivity", factor, "ok", <<>>)
    /\ busLog' = <<>>
    /\ UNCHANGED <<phase, clock, asens, omega_offset, theta, theta_f, last_update,
                   nWrites, hist>>

SetAccelSensitivity ==
    /\ phase = "live"
    /\ \E factor \in AccelFactors :
        /\ asens' = factor
        /\ ret' = Result("set_accel_sensitivity", factor, "ok", <<>>)
    /\ busLog' = <<>>
    /\ UNCHANGED <<phase, clock, gsens, omega_offset, theta, theta_f, last_update,
                   nWrites, hist>>

\* time passes between two calls
Tick ==
    /\ phase = "live"
    /\ \E d \in Gaps : clock + d <= MaxClock /\ clock' = clock + d
    /\ UNCHANGED <<phase, obj, ret, busLog, nWrites, hist>>

Next ==
    \/ Construct
    \/ GetTemp
    \/ GetAccel
    \/ GetOmega
    \/ UpdateTheta
    \/ GetTheta
    \/ ResetTheta
    \/ ResetGyroOffset
    \/ SetGyroOffset
    \/ SetGyroSensitivity
    \/ SetAccelSensitivity
    \/ Tick

Spec == Init /\ [][Next]_vars

\* the operations that calibrate, or set or read what calibration does, with
\* the direct call of _calibrate_gyro
NextCal ==
    \/ Construct
    \/ GetOmega
    \/ ResetGyroOffset
    \/ CalibrateCall
    \/ SetGyroOffset
    \/ SetGyroSensitivity
    \/ Tick

SpecCal == Init /\ [][NextCal]_vars

----------------------------------------------------------------------------
(* _read_raw_data on its own, over every pair of bytes *)

RawRegs == {TEMP_OUT_H, GYRO_ZOUT_H}

\* a driver constructed with the device at rest, and a call
\* _read_raw_data(reg) in flight: val holds the bytes the device has at reg
\* and reg + 1
InitRaw ==
    /\ phase = "live"
    /\ clock = StartClock + WAKE_MS
    /\ gsens = DEFAULT_GYRO_FACTOR
    /\ asens = DEFAULT_ACCEL_FACTOR
    /\ omega_offset = ZeroVec
    /\ theta = ZeroVec
    /\ theta_f = ZeroVec
    /\ last_update = ticks_ms(StartClock + WAKE_MS)
    /\ \E reg \in RawRegs, high \in 0..255, low \in 0..255 :
        ret = Result("_read_raw_data", reg, "called", <<high, low>>)
    /\ busLog = <<>>
    /\ nWrites = 1
    /\ hist = NewHist(StartClock + WAKE_MS)

\* the call runs: the bus answers high, then low
ReadRaw ==
    /\ phase = "live"
    /\ ret.op = "_read_raw_data"
    /\ ret.status = "called"
    /\ busLog' = <<Rd(ret.arg, ret.val[1]), Rd(ret.arg + 1, ret.val[2])>>
    /\ ret' = Result("_read_raw_data", ret.arg, "ok", <<ReadRawData(ret.val[1], ret.val[2])>>)
    /\ UNCHANGED <<phase, clock, obj, nWrites, hist>>

SpecRaw == InitRaw /\ [][ReadRaw]_vars

----------------------------------------------------------------------------
(* Properties *)

AxisSeq == <<"x", "y", "z">>
HighRegs == {TEMP_OUT_H, ACCEL_XOUT_H, ACCEL_YOUT_H, ACCEL_ZOUT_H,
             GYRO_XOUT_H, GYRO_YOUT_H, GYRO_ZOUT_H}
UpdateOps == {"update_theta", "get_theta"}

\* two bytes as a signed 16-bit number
SignedOf(high, low) ==
    IF high * 256 + low <= 32767 THEN high * 256 + low ELSE high * 256 + low - 65536

\* the value the bus gave the i-th register read of a log
BusRaw(log, i) == SignedOf(log[2 * i - 1].data, log[2 * i].data)

TruncTowardZero(f) == IF f >= 0 THEN f \div One ELSE -((-f) \div One)

\* C1: once constructed, after any operation, theta[axis] is theta_f[axis]
\* truncated toward zero, on every axis.
C1_ThetaIsTruncation ==
    phase = "live" => \A a \in Axes : theta[a] = TruncTowardZero(theta_f[a])

\* a negative, non-integer accumulated angle below -1: truncation and floor differ
C1_Witness ==
    /\ phase = "live"
    /\ \E a \in Axes :
        /\ theta_f[a] < -One
        /\ theta_f[a] % One # 0
        /\ theta[a] = -((-theta_f[a]) \div One)
        /\ theta[a] # theta_f[a] \div One

\* C2: set_gyro_offset raises ValueError and keeps the stored offset when the
\* mapping lacks one of x, y, z; otherwise it stores the mapping as given.
C2_SetGyroOffset ==
    [][(ret'.op = "set_gyro_offset" /\ clock' = clock) =>
         IF {"x", "y", "z"} \subseteq DOMAIN ret'.arg
         THEN ret'.status = "ok" /\ omega_offset' = ret'.arg
         ELSE ret'.status = "ValueError" /\ omega_offset' = omega_offset]_vars

\* a mapping without z was refused, the offset set before it is still stored
C2_Witness ==
    /\ ret.op = "set_gyro_offset"
    /\ ret.status = "ValueError"
    /\ "z" \notin DOMAIN ret.arg
    /\ omega_offset = [x |-> One, y |-> 0, z |-> 0]

\* C3: _read_raw_data returns high * 256 + low when that is at most 32767 and
\* high * 256 + low - 65536 otherwise, a value in -32768..32767; it reads reg,
\* then reg + 1; (0x7F, 0xFF) gives 32767, (0x80, 0x00) -32768, (0, 0) 0.
C3_RawDecode ==
    (ret.op = "_read_raw_data" /\ ret.status = "ok") =>
        /\ Len(busLog) = 2
        /\ busLog[1].reg = ret.arg
        /\ busLog[2].reg = ret.arg + 1
        /\ ret.val[1] = SignedOf(busLog[1].data, busLog[2].data)
        /\ ret.val[1] \in -32768..32767
        /\ (busLog[1].data = 127 /\ busLog[2].data = 255) => ret.val[1] = 32767
        /\ (busLog[1].data = 128 /\ busLog[2].data = 0) => ret.val[1] = -32768
        /\ (busLog[1].data = 0 /\ busLog[2].data = 0) => ret.val[1] = 0

\* the bytes 0x80, 0x00 were read and decoded
C3_Witness ==
    /\ ret.op = "_read_raw_data"
    /\ ret.status = "ok"
    /\ busLog[1].data = 128
    /\ busLog[2].data = 0
    /\ ret.val[1] = -32768

\* C4: get_omega returns, on each axis, raw / factor - offset[axis] with the
\* factor and the offset stored when it is called; offset 1.0 and raw 131 at
\* factor 131.0 give 0.0; offset 0 and a raw value equal to the factor give 1.0.
C4_OmegaValue ==
    (phase = "live" /\ ret.op = "get_omega" /\ ret.status = "ok") =>
        \A i \in 1..3 :
            /\ busLog[2 * i - 1].reg = GyroRegs[i]
            /\ ret.val[AxisSeq[i]] =
                 FSub(FDiv(IntToFloat(BusRaw(busLog, i)), gsens), omega_offset[AxisSeq[i]])
            /\ (BusRaw(busLog, i) = 131 /\ gsens = Lit(131, 1) /\ omega_offset[AxisSeq[i]] = One)
                 => ret.val[AxisSeq[i]] = 0
            /\ (IntToFloat(BusRaw(busLog, i)) = gsens /\ omega_offset[AxisSeq[i]] = 0)
                 => ret.val[AxisSeq[i]] = One

\* after set_gyro_sensitivity(262.0) and set_gyro_offset({x: 1.0, y: 0, z: 0}):
\* raw y = 262 reads 1.0, raw x = 131 reads 0.5 - 1.0
C4_Witness ==
    /\ ret.op = "get_omega"
    /\ ret.status = "ok"
    /\ gsens = Lit(262, 1)
    /\ omega_offset = [x |-> One, y |-> 0, z |-> 0]
    /\ BusRaw(busLog, 1) = 131
    /\ BusRaw(busLog, 2) = 262
    /\ ret.val.y = One
    /\ ret.val.x = -(One \div 2)

\* the bias-corrected reading of axis number i that a log of get_omega gives
OmegaRead(log, i) ==
    FSub(FDiv(IntToFloat(BusRaw(log, i)), gsens), omega_offset[AxisSeq[i]])

\* the elapsed time, in seconds, that the tick counter shows at a call
ElapsedTicks == ticks_diff(ticks_ms(clock), last_update)
ElapsedSeconds == FDiv(IntToFloat(ElapsedTicks), IntToFloat(1000))

\* a step is a call of update_theta (directly or by get_theta) that returned
UpdateReturned == ret'.op \in UpdateOps /\ ret'.status = "ok" /\ clock' = clock
\* a step is a call of update_theta (directly or by get_theta) that raised
UpdateRaised == ret'.op \in UpdateOps /\ ret'.status = "OSError" /\ clock' = clock

\* C5 as stated: over successful get_theta/update_theta calls with no reset in
\* between, the dt values add up to exactly the time elapsed between the
\* integration origin and the latest call.
C5_Original ==
    (phase = "live" /\ hist.skipped = 0) => hist.dtsum = hist.lastTrue - hist.origin

\* C5: a successful get_theta sets last_update to the current tick value and
\* adds omega[axis] * dt to theta_f[axis], with dt the tick difference to the
\* previous last_update in seconds and omega the bias-corrected reading of
\* that call, then returns the integer view; while every interval between
\* consecutive updates is shorter than half the tick period, the tick
\* differences integrated since the origin add up to exactly the time elapsed
\* between the origin and the latest call.
C5_IntegrationStep ==
    /\ [][UpdateReturned =>
            /\ last_update' = ticks_ms(clock)
            /\ hist'.dt = ElapsedSeconds
            /\ \A i \in 1..3 :
                /\ theta_f'[AxisSeq[i]] =
                     FAdd(theta_f[AxisSeq[i]], FMul(OmegaRead(busLog', i), ElapsedSeconds))
                /\ theta'[AxisSeq[i]] = TruncTowardZero(theta_f'[AxisSeq[i]])
            /\ ret'.op = "get_theta" => ret'.val = theta'
            /\ clock - hist.lastTrue < TICKS_PERIOD \div 2
                 => ElapsedTicks = clock - hist.lastTrue]_vars
    /\ []((phase = "live" /\ hist.skipped = 0 /\ hist.gapsOk)
            => hist.dtsum = hist.lastTrue - hist.origin)

\* two successful get_theta/update_theta calls, 500 ms after the origin and
\* 500 ms after each other, integrated 1000 ms
C5_Witness ==
    /\ ret.op = "get_theta"
    /\ ret.status = "ok"
    /\ hist.skipped = 0
    /\ hist.gapsOk
    /\ hist.gap = 500
    /\ hist.dtsum = 1000
    /\ hist.lastTrue - hist.origin = 1000
    /\ ret.val = theta
    /\ theta # ZeroVec

\* C6: reset_theta zeroes theta and theta_f, sets last_update to the current
\* tick value and leaves the gyro offset and both sensitivity factors alone;
\* a get_theta that follows with no time elapsed returns zero on every axis.
C6_ResetTheta ==
    [][/\ (ret'.op = "reset_theta" /\ clock' = clock) =>
            /\ theta' = ZeroVec
            /\ theta_f' = ZeroVec
            /\ last_update' = ticks_ms(clock)
            /\ omega_offset' = omega_offset
            /\ gsens' = gsens
            /\ asens' = asens
       /\ (/\ ret.op = "reset_theta"
           /\ clock = hist.origin
           /\ ret'.op = "get_theta"
           /\ ret'.status = "ok"
           /\ clock' = clock) => ret'.val = ZeroVec]_vars

\* get_theta right after a reset_theta made later than construction, at changed
\* sensitivities and with an angle accumulated before the reset, returned zeros
\* from a non-zero reading
C6_Witness ==
    /\ ret.op = "get_theta"
    /\ ret.status = "ok"
    /\ ret.val = ZeroVec
    /\ hist.origin = clock
    /\ hist.origin > StartClock + WAKE_MS
    /\ hist.dt = 0
    /\ BusRaw(busLog, 3) # 0
    /\ gsens = Lit(262, 1)
    /\ asens = Lit(8192, 1)
    /\ omega_offset # ZeroVec

\* a state right after a calibration that returned: at construction, in
\* reset_gyro_offset, or called directly
CalDone ==
    ret.status = "ok" /\ ret.op \in {"__init__", "reset_gyro_offset", "_calibrate_gyro"}
\* its bus reads, its number of rounds N and the offset it computed
CalLog == IF ret.op = "__init__" THEN Tail(busLog) ELSE busLog
CalN == Len(CalLog) \div 6
CalResult == IF ret.op = "_calibrate_gyro" THEN ret.val ELSE omega_offset
\* the raw value and the un-biased reading of axis number j in round i
CalRaw(i, j) == BusRaw(CalLog, 3 * (i - 1) + j)
CalSample(i, j) == FDiv(IntToFloat(CalRaw(i, j)), gsens)
RECURSIVE CalSum(_, _)
CalSum(j, i) == IF i = 0 THEN 0 ELSE FAdd(CalSum(j, i - 1), CalSample(i, j))
CalConstant(j) == \A i \in 1..CalN : CalRaw(i, j) = CalRaw(1, j)

\* C7 as stated: when every sample of an axis has the same raw value R, the
\* computed offset on that axis equals R / sensitivity for every N >= 1.
C7_Original ==
    CalDone => \A j \in 1..3 :
        CalConstant(j) => CalResult[AxisSeq[j]] = CalSample(1, j)

\* C7: calibration gives, per axis, the floating-point sum of the N readings
\* raw / sensitivity, none bias-subtracted, divided by N, whatever offset was
\* stored before; when every sample of an axis has the same raw value R the
\* offset is R / sensitivity exactly for N <= 2 and within N units in the last
\* place of R / sensitivity for larger N.
C7_CalibrationMean ==
    CalDone => \A j \in 1..3 :
        /\ CalN >= 1
        /\ CalResult[AxisSeq[j]] = FDiv(CalSum(j, CalN), IntToFloat(CalN))
        /\ CalConstant(j) =>
            /\ CalN <= 2 => CalResult[AxisSeq[j]] = CalSample(1, j)
            /\ Abs(CalResult[AxisSeq[j]] - CalSample(1, j)) <= CalN * Ulp(CalSample(1, j))

\* reset_gyro_offset at the changed factor 262.0, three rounds: x varies, z is
\* constant, and the mean of z is not the sample
C7_Witness ==
    /\ CalDone
    /\ ret.op = "reset_gyro_offset"
    /\ gsens = Lit(262, 1)
    /\ CalN = 3
    /\ ~CalConstant(1)
    /\ CalConstant(3)
    /\ omega_offset.x = FDiv(CalSum(1, 3), IntToFloat(3))
    /\ omega_offset.z # CalSample(1, 3)

\* the bus reads of the latest call
ReadsOf(log) == IF log # <<>> /\ log[1].kind = "w" THEN Tail(log) ELSE log

\* C8: the driver writes to the bus once in its lifetime, one zero byte to
\* PWR_MGMT_1 as the first transaction of construction, before every read;
\* every read asks for 1 byte, and reads come in pairs, a high-byte register
\* then the register after it.
C8_BusTraffic ==
    /\ nWrites = (IF phase = "new" THEN 0 ELSE 1)
    /\ phase = "new" => busLog = <<>>
    /\ ret.op = "__init__" => busLog[1] = Wr(PWR_MGMT_1, 0, busLog[1].ok)
    /\ \A k \in 1..Len(busLog) :
        /\ busLog[k].n = 1
        /\ busLog[k].kind = "w" => (k = 1 /\ ret.op = "__init__")
        /\ ~busLog[k].ok => k = Len(busLog)
    /\ \A k \in 1..Len(ReadsOf(busLog)) :
        /\ ReadsOf(busLog)[k].kind = "r"
        /\ k % 2 = 1 => ReadsOf(busLog)[k].reg \in HighRegs
        /\ k % 2 = 0 => ReadsOf(busLog)[k].reg = ReadsOf(busLog)[k - 1].reg + 1
    /\ Len(ReadsOf(busLog)) % 2 = 1 => ~busLog[Len(busLog)].ok

\* a construction that returned: the write, then the reads of calibration
C8_Witness ==
    /\ phase = "live"
    /\ ret.op = "__init__"
    /\ nWrites = 1
    /\ Len(busLog) = 1 + 6 * DefaultSamples
    /\ busLog[1] = Wr(PWR_MGMT_1, 0, TRUE)
    /\ busLog[2] = Rd(GYRO_XOUT_H, busLog[2].data)
    /\ busLog[3] = Rd(GYRO_XOUT_H + 1, busLog[3].data)

\* C9: when the tick counter rolled over between two consecutive updates that
\* were less than half the counter period apart, the dt of update_theta is
\* the true elapsed time divided by 1000, and not negative.
C9_WraparoundSafe ==
    (phase = "live" /\ hist.rolled /\ hist.gap < TICKS_PERIOD \div 2) =>
        /\ hist.dt = FDiv(IntToFloat(hist.gap), IntToFloat(1000))
        /\ hist.dt >= 0

\* get_theta 500 ms after the previous update, the counter having rolled over
\* in between: the tick value is below last_update's, dt is 0.5
C9_Witness ==
    /\ ret.op = "get_theta"
    /\ ret.status = "ok"
    /\ hist.rolled
    /\ hist.gap = 500
    /\ last_update < ticks_ms(hist.lastTrue - hist.gap)
    /\ hist.dt = One \div 2

\* C10: when a bus read raises in get_theta/update_theta the error reaches the
\* caller, the failed read is the last bus transaction of the call and no
\* register is read twice, theta and theta_f keep their values, and
\* last_update is the current tick value all the same; the time that ended at
\* the failed call is in no later dt.
C10_FailedUpdate ==
    /\ [][UpdateRaised =>
            /\ theta' = theta
            /\ theta_f' = theta_f
            /\ last_update' = ticks_ms(clock)
            /\ busLog' # <<>>
            /\ \A k \in 1..Len(busLog') : busLog'[k].ok <=> k < Len(busLog')
            /\ \A k, l \in 1..Len(busLog') : busLog'[k].reg = busLog'[l].reg => k = l
            /\ hist'.dtsum = hist.dtsum]_vars
    /\ []((phase = "live" /\ hist.gapsOk)
            => hist.dtsum + hist.skipped = hist.lastTrue - hist.origin)

\* a get_theta raised 500 ms after the origin, a get_theta 500 ms later
\* returned: of the 1000 ms since the origin, 500 were integrated
C10_Witness ==
    /\ ret.op = "get_theta"
    /\ ret.status = "ok"
    /\ hist.skipped = 500
    /\ hist.dtsum = 500
    /\ hist.lastTrue - hist.origin = 1000
    /\ hist.dt = One \div 2

====
